---- MODULE Spec2Model ----
(***************************************************************************)
(* Model of main2.py: the batch driver (main), the roster reader           *)
(* (read_location_ids), the staging clear (clear_patients_to_sync_folder)  *)
(* and the per-location orchestrator (process_location), together with the *)
(* durable artifacts they work on: locations.txt, logs/progress.json,      *)
(* encounters_to_process.json, patients_to_sync.json and the directory     *)
(* patients_to_sync/.                                                      *)
(*                                                                         *)
(* ProgressTracker and SyncService live outside main2.py; ProgressTracker  *)
(* is modelled from its contract (get / reset / record), the SyncService   *)
(* collaborators (connect, fetch, process_patient_and_encounters,          *)
(* process_patient_files) are modelled by their possible outcomes.         *)
(***************************************************************************)
EXTENDS Integers, Sequences, FiniteSets, TLC

\* ------------------------------------------------------------- bounds
\* Number of times the program is started (first run plus re-runs).
MaxRuns == 2
\* Number of distinct PatientIds the source store can return.
MaxUnits == 2

\* Length of the roster files read_location_ids is tried on.
MaxRosterLen == 5

\* ------------------------------------------------------------- data
PatientIds == 1..MaxUnits

\* The EncounterIds the source store holds for a patient: E1, E2 for patient
\* 1, one encounter for every other patient.
EncountersOf(p) == IF p = 1 THEN <<1, 2>> ELSE <<p + 1>>

\* Exit status of a process that has not terminated yet.
Running == -1
\* sys.exit(1), and the status of an uncaught exception.
ExitFailure == 1
\* main() returned.
ExitSuccess == 0
\* The process was killed (crash, power loss, SIGKILL).
Killed == 137

Whitespace == { " ", "\n" }

\* locations.txt as it can be found on disk: missing, all blank, two
\* locations with blank lines and padding, one location listed twice.
RosterFiles ==
  { [exists |-> FALSE, text |-> <<>>],
    [exists |-> TRUE,  text |-> <<" ", "\n", "\n">>],
    [exists |-> TRUE,  text |-> <<" ", "A", " ", "\n", "\n", "B">>],
    [exists |-> TRUE,  text |-> <<"A", "\n", "A", "\n">>] }

\* What patients_to_sync/ can hold before the first run: a file left by an
\* earlier program run (origin <<0, 0>>) and a subdirectory that holds a
\* file of its own (`inside`: the names of the entries of a directory).
OldFile == [name |-> 0, kind |-> "file", origin |-> <<0, 0>>, inside |-> {}]
SubDir  == [name |-> -1, kind |-> "dir", origin |-> <<0, 0>>, inside |-> {0}]
InitialStaging == { {}, {OldFile, SubDir} }

VARIABLES
  \* durable state
  locations_txt,               \* the roster file
  progress_json,               \* logs/progress.json: LocationId -> list of PatientId
  encounters_to_process_json,  \* the snapshot file
  patients_to_sync_json,       \* patients_to_sync.json
  patients_to_sync,            \* entries of the staging directory
  \* the running process
  run,                         \* how many times the program was started
  pc,                          \* position in main / process_location
  exit_status,
  location_ids,                \* main: the parsed roster
  loc_i,                       \* main: index of the for loop over location_ids
  progress_tracker,            \* process_location: the ProgressTracker's document
  handled_encounters,          \* process_location: result of get_progress
  patient_encounters,          \* process_location: result of the fetch
  encounters_to_process,       \* process_location: the map read back
  k,                           \* process_location: position of the for loop
  listing,                     \* clear: entries of os.listdir still to visit
  calls,                       \* history: collaborator calls of this process
  error_log,                   \* logging.error records written by this process
  tracker_ids                  \* ProgressTracker instances: made, passed, used

vars == << locations_txt, progress_json, encounters_to_process_json,
           patients_to_sync_json, patients_to_sync, run, pc, exit_status,
           location_ids, loc_i, progress_tracker, handled_encounters,
           patient_encounters, encounters_to_process, k, listing, calls,
           error_log, tracker_ids >>

durable == << locations_txt, progress_json, encounters_to_process_json,
              patients_to_sync_json, patients_to_sync >>

\* ------------------------------------------------------------- helpers
\* Python's None against a value.
None == [none |-> TRUE, val |-> <<>>]
Some(v) == [none |-> FALSE, val |-> v]

\* str.strip(): drop leading and trailing whitespace.
RECURSIVE LStrip(_)
LStrip(s) ==
  IF s = <<>> THEN s
  ELSE IF Head(s) \in Whitespace THEN LStrip(Tail(s)) ELSE s

RECURSIVE RStrip(_)
RStrip(s) ==
  IF s = <<>> THEN s
  ELSE IF s[Len(s)] \in Whitespace THEN RStrip(SubSeq(s, 1, Len(s) - 1)) ELSE s

\* Mutant: line.rstrip() in place of line.strip().
Strip_rstrip(s) == RStrip(s)

Strip(s) == RStrip(LStrip(s))

\* Iterating a text file: the lines, each with its trailing newline.
RECURSIVE FileLines(_, _)
FileLines(text, cur) ==
  IF text = <<>> THEN (IF cur = <<>> THEN <<>> ELSE <<cur>>)
  ELSE IF Head(text) = "\n"
       THEN <<Append(cur, "\n")>> \o FileLines(Tail(text), <<>>)
       ELSE FileLines(Tail(text), Append(cur, Head(text)))

\* [line.strip() for line in file if line.strip()]
RECURSIVE StripNonBlank(_)
StripNonBlank(lines) ==
  IF lines = <<>> THEN <<>>
  ELSE IF Strip(Head(lines)) # <<>>
       THEN <<Strip(Head(lines))>> \o StripNonBlank(Tail(lines))
       ELSE StripNonBlank(Tail(lines))

\* read_location_ids: the list it returns, or exit when the file is missing
\* or holds no id.
read_location_ids(file) ==
  IF ~file.exists THEN [exit |-> TRUE, ids |-> <<>>]
  ELSE LET ids == StripNonBlank(FileLines(file.text, <<>>))
       IN  IF ids = <<>> THEN [exit |-> TRUE, ids |-> <<>>]
           ELSE [exit |-> FALSE, ids |-> ids]

\* A dict is a sequence of <<key, value>> pairs with distinct keys, in
\* insertion order.
Keys(d) == [n \in 1..Len(d) |-> d[n][1]]

InjectiveSeqs(S, n) ==
  { s \in UNION { [1..m -> S] : m \in 0..n } :
      \A a, b \in 1..Len(s) : a # b => s[a] # s[b] }

\* The unit maps the fetch can return.
UnitMaps ==
  { [n \in 1..Len(ks) |-> <<ks[n], EncountersOf(ks[n])>>] :
      ks \in InjectiveSeqs(PatientIds, MaxUnits) }

\* json.dump of a dict: the members of a JSON object, in dict order.
JsonDump(d) == [n \in 1..Len(d) |-> [name |-> d[n][1], value |-> d[n][2]]]

\* dict[key] = value
DictSet(d, key, value) ==
  IF \E n \in 1..Len(d) : d[n][1] = key
  THEN [n \in 1..Len(d) |-> IF d[n][1] = key THEN <<key, value>> ELSE d[n]]
  ELSE Append(d, <<key, value>>)

\* json.load of an object: members inserted in order of appearance.
RECURSIVE JsonLoadFrom(_, _)
JsonLoadFrom(members, d) ==
  IF members = <<>> THEN d
  ELSE JsonLoadFrom(Tail(members),
                    DictSet(d, Head(members).name, Head(members).value))

JsonLoad(members) == JsonLoadFrom(members, <<>>)

\* A file of zero bytes, and a file holding a JSON object.
EmptyFile == [json |-> FALSE, members |-> <<>>]
JsonFile(members) == [json |-> TRUE, members |-> members]

\* ProgressTracker.get_progress(location): None for a location never
\* initialised, else its list.
get_progress(doc, location) ==
  IF location \in DOMAIN doc THEN Some(doc[location]) ELSE None

\* ProgressTracker.reset_progress(location): the entry becomes the empty list.
reset_progress(doc, location) ==
  [l \in DOMAIN doc \cup {location} |-> IF l = location THEN <<>> ELSE doc[l]]

\* ProgressTracker.update_progress(location, patient_id): append.
update_progress(doc, location, patient_id) ==
  [l \in DOMAIN doc \cup {location} |->
     IF l = location
     THEN Append(IF location \in DOMAIN doc THEN doc[location] ELSE <<>>, patient_id)
     ELSE doc[l]]

\* The location the for loop of main is at.
location_id == location_ids[loc_i]

\* No ProgressTracker has been constructed yet: `made` counts the instances
\* constructed by this process, `arg` is the one main passed to
\* process_location, `used` the one process_location calls.
NoTrackers == [made |-> 0, arg |-> 0, used |-> 0]

\* The calls made on a ProgressTracker.
StoreOps == { "get_progress", "reset_progress", "update_progress" }

\* One collaborator call with its outcome, as the history records it; `on` is
\* the ProgressTracker instance a store call is made on, and for the call of
\* process_location the instance main passes.
Call(op, pid, ret) ==
  [op |-> op, i |-> loc_i, loc |-> location_id, pid |-> pid, ret |-> ret,
   on |-> IF op \in StoreOps THEN tracker_ids'.used
          ELSE IF op = "process_location" THEN tracker_ids'.arg ELSE 0]

\* logging.error: what the record names of the stage and of the location.
LogError(stage, location) ==
  error_log' = Append(error_log, [stage |-> stage, location |-> location])

\* line 95: the message of the handler of process_location's try block,
\* "Failed to fetch encounters by location ID: {e}".
log_handler == LogError("fetch", None)

\* sys.exit(status), or the interpreter ending on an uncaught exception.
Exit(status) == exit_status' = status

Log(op, pid, ret) == calls' = Append(calls, Call(op, pid, ret))

\* ------------------------------------------------------------- initial state
EmptyDocument == [l \in {} |-> <<>>]

Init ==
  /\ locations_txt \in RosterFiles
  /\ progress_json = EmptyDocument
  /\ encounters_to_process_json = EmptyFile
  /\ patients_to_sync_json = "data"
  /\ patients_to_sync \in InitialStaging
  /\ run = 1
  /\ pc = "main"
  /\ exit_status = Running
  /\ location_ids = <<>>
  /\ loc_i = 1
  /\ progress_tracker = EmptyDocument
  /\ handled_encounters = None
  /\ patient_encounters = None
  /\ encounters_to_process = <<>>
  /\ k = 1
  /\ listing = {}
  /\ calls = <<>>
  /\ error_log = <<>>
  /\ tracker_ids = NoTrackers

At(label) == exit_status = Running /\ pc = label

\* ------------------------------------------------------------- main
\* Mutant: sys.exit() without a status.
MainRosterExit_status0 ==
  /\ At("main")
  /\ UNCHANGED tracker_ids
  /\ UNCHANGED error_log
  /\ read_location_ids(locations_txt).exit
  /\ Exit(ExitSuccess)
  /\ UNCHANGED << durable, run, pc, location_ids, loc_i, progress_tracker,
                  handled_encounters, patient_encounters,
                  encounters_to_process, k, listing, calls >>

\* main, lines 104-109: the roster is read; a missing or empty roster exits.
MainReadRoster ==
  /\ At("main")
  /\ UNCHANGED tracker_ids
  /\ UNCHANGED error_log
  /\ ~read_location_ids(locations_txt).exit
  /\ location_ids' = read_location_ids(locations_txt).ids
  /\ loc_i' = 1
  /\ pc' = "for_location"
  /\ UNCHANGED << durable, run, exit_status, progress_tracker,
                  handled_encounters, patient_encounters,
                  encounters_to_process, k, listing, calls >>

MainRosterExit ==
  /\ At("main")
  /\ UNCHANGED tracker_ids
  /\ UNCHANGED error_log
  /\ read_location_ids(locations_txt).exit
  /\ Exit(ExitFailure)
  /\ UNCHANGED << durable, run, pc, location_ids, loc_i, progress_tracker,
                  handled_encounters, patient_encounters,
                  encounters_to_process, k, listing, calls >>

\* Mutant: main loops over the distinct ids: a location seen earlier in the
\* roster is passed over.
MainNextLocation_skip_seen ==
  /\ At("for_location")
  /\ tracker_ids' = [tracker_ids EXCEPT !.made = @ + 1,
                                       !.arg = tracker_ids.made + 1]
  /\ UNCHANGED error_log
  /\ loc_i <= Len(location_ids)
  /\ IF \E j \in 1..(loc_i - 1) : location_ids[j] = location_id
     THEN /\ loc_i' = loc_i + 1
          /\ UNCHANGED << pc, calls >>
     ELSE /\ Log("process_location", 0, "call")
          /\ pc' = "listdir"
          /\ UNCHANGED loc_i
  /\ progress_tracker' = EmptyDocument
  /\ handled_encounters' = None
  /\ patient_encounters' = None
  /\ encounters_to_process' = <<>>
  /\ k' = 1
  /\ UNCHANGED << durable, run, exit_status, location_ids, listing >>

\* main, lines 128-129, 41-43: the orchestrator is called for the next
\* location; its locals start unbound.
MainNextLocation ==
  /\ At("for_location")
  /\ tracker_ids' = [tracker_ids EXCEPT !.made = @ + 1,
                                       !.arg = tracker_ids.made + 1]
  /\ UNCHANGED error_log
  /\ loc_i <= Len(location_ids)
  /\ Log("process_location", 0, "call")
  /\ pc' = "listdir"
  /\ progress_tracker' = EmptyDocument
  /\ handled_encounters' = None
  /\ patient_encounters' = None
  /\ encounters_to_process' = <<>>
  /\ k' = 1
  /\ UNCHANGED << durable, run, exit_status, location_ids, loc_i, listing >>

\* main returns after the last location: the process ends with status 0.
MainReturn ==
  /\ At("for_location")
  /\ UNCHANGED tracker_ids
  /\ UNCHANGED error_log
  /\ loc_i > Len(location_ids)
  /\ pc' = "done"
  /\ Exit(ExitSuccess)
  /\ UNCHANGED << durable, run, location_ids, loc_i, progress_tracker,
                  handled_encounters, patient_encounters,
                  encounters_to_process, k, listing, calls >>

\* ------------------------------------------------------------- clear
\* clear_patients_to_sync_folder, line 32: os.listdir of the directory
\* (which is taken to exist).
ClearListdir ==
  /\ At("listdir")
  /\ UNCHANGED tracker_ids
  /\ UNCHANGED error_log
  /\ listing' = patients_to_sync
  /\ pc' = "clear"
  /\ UNCHANGED << durable, run, exit_status, location_ids, loc_i,
                  progress_tracker, handled_encounters, patient_encounters,
                  encounters_to_process, k, calls >>

\* lines 33-36: a regular file is unlinked.
ClearUnlink ==
  /\ At("clear")
  /\ UNCHANGED tracker_ids
  /\ UNCHANGED error_log
  /\ \E e \in listing :
       /\ e.kind = "file"
       /\ patients_to_sync' = patients_to_sync \ {e}
       /\ listing' = listing \ {e}
       /\ Log("unlink", e.name, "ok")
  /\ UNCHANGED << locations_txt, progress_json, encounters_to_process_json,
                  patients_to_sync_json, run, pc, exit_status, location_ids,
                  loc_i, progress_tracker, handled_encounters,
                  patient_encounters, encounters_to_process, k >>

\* Mutant: the deletion failure is logged and the loop goes on.
ClearUnlinkFails_continue ==
  /\ At("clear")
  /\ UNCHANGED tracker_ids
  /\ LogError("delete", None)
  /\ \E e \in listing :
       /\ e.kind = "file"
       /\ listing' = listing \ {e}
       /\ Log("unlink", e.name, "raise")
  /\ UNCHANGED << durable, run, pc, exit_status, location_ids, loc_i,
                  progress_tracker, handled_encounters, patient_encounters,
                  encounters_to_process, k >>

\* lines 35, 37-39: os.unlink raises; the error is logged and the process exits.
ClearUnlinkFails ==
  /\ At("clear")
  /\ UNCHANGED tracker_ids
  /\ LogError("delete", None)
  /\ \E e \in listing :
       /\ e.kind = "file"
       /\ Log("unlink", e.name, "raise")
  /\ Exit(ExitFailure)
  /\ UNCHANGED << durable, run, pc, location_ids, loc_i, progress_tracker,
                  handled_encounters, patient_encounters,
                  encounters_to_process, k, listing >>

\* Mutant: a directory is removed with all it holds (shutil.rmtree).
ClearSkip_rmtree ==
  /\ At("clear")
  /\ UNCHANGED << tracker_ids, error_log >>
  /\ \E e \in listing :
       /\ e.kind # "file"
       /\ patients_to_sync' = patients_to_sync \ {e}
       /\ listing' = listing \ {e}
  /\ UNCHANGED << locations_txt, progress_json, encounters_to_process_json,
                  patients_to_sync_json, run, pc, exit_status, location_ids,
                  loc_i, progress_tracker, handled_encounters,
                  patient_encounters, encounters_to_process, k, calls >>

\* line 35: an entry that is no regular file is passed over.
ClearSkip ==
  /\ At("clear")
  /\ UNCHANGED tracker_ids
  /\ UNCHANGED error_log
  /\ \E e \in listing :
       /\ e.kind # "file"
       /\ listing' = listing \ {e}
  /\ UNCHANGED << durable, run, pc, exit_status, location_ids, loc_i,
                  progress_tracker, handled_encounters, patient_encounters,
                  encounters_to_process, k, calls >>

\* the for loop of line 32 is exhausted: clear returns.
ClearReturn ==
  /\ At("clear")
  /\ UNCHANGED tracker_ids
  /\ UNCHANGED error_log
  /\ listing = {}
  /\ pc' = "get_progress"
  /\ UNCHANGED << durable, run, exit_status, location_ids, loc_i,
                  progress_tracker, handled_encounters, patient_encounters,
                  encounters_to_process, k, listing, calls >>

\* ------------------------------------------------------------- process_location
\* Mutant: the entry is reset on every run of the location.
is_new_location_always(handled) == TRUE

\* line 53: the location is new when get_progress returned None.
is_new_location(handled) == handled.none

\* Mutant: the fresh ProgressTracker starts from an empty document instead
\* of the contents of logs/progress.json.
GetProgress_not_loaded ==
  /\ At("get_progress")
  /\ tracker_ids' = [tracker_ids EXCEPT !.made = @ + 1,
                                       !.used = tracker_ids.made + 1]
  /\ UNCHANGED error_log
  /\ progress_tracker' = EmptyDocument
  /\ handled_encounters' = get_progress(EmptyDocument, location_id)
  /\ Log("get_progress", 0,
         IF get_progress(EmptyDocument, location_id).none THEN "none" ELSE "list")
  /\ pc' = IF is_new_location(handled_encounters') THEN "reset_progress"
                                                  ELSE "connect"
  /\ UNCHANGED << durable, run, exit_status, location_ids, loc_i,
                  patient_encounters, encounters_to_process, k, listing >>

\* lines 49-56: a fresh ProgressTracker is loaded from logs/progress.json and
\* asked for the location's list.
GetProgress ==
  /\ At("get_progress")
  /\ tracker_ids' = [tracker_ids EXCEPT !.made = @ + 1,
                                       !.used = tracker_ids.made + 1]
  /\ UNCHANGED error_log
  /\ progress_tracker' = progress_json
  /\ handled_encounters' = get_progress(progress_json, location_id)
  /\ Log("get_progress", 0,
         IF get_progress(progress_json, location_id).none THEN "none" ELSE "list")
  /\ pc' = IF is_new_location(handled_encounters') THEN "reset_progress"
                                                  ELSE "connect"
  /\ UNCHANGED << durable, run, exit_status, location_ids, loc_i,
                  patient_encounters, encounters_to_process, k, listing >>

\* Mutant: the empty entry is made in the tracker's memory only and reaches
\* the file with the first record.
ResetProgress_in_memory ==
  /\ At("reset_progress")
  /\ UNCHANGED tracker_ids
  /\ UNCHANGED error_log
  /\ handled_encounters' = Some(<<>>)
  /\ progress_tracker' = reset_progress(progress_tracker, location_id)
  /\ Log("reset_progress", 0, "ok")
  /\ pc' = "connect"
  /\ UNCHANGED << durable, run, exit_status, location_ids, loc_i,
                  patient_encounters, encounters_to_process, k, listing >>

\* lines 57-58: a new location gets an empty entry, persisted by the tracker.
ResetProgress ==
  /\ At("reset_progress")
  /\ UNCHANGED tracker_ids
  /\ UNCHANGED error_log
  /\ handled_encounters' = Some(<<>>)
  /\ progress_tracker' = reset_progress(progress_tracker, location_id)
  /\ progress_json' = progress_tracker'
  /\ Log("reset_progress", 0, "ok")
  /\ pc' = "connect"
  /\ UNCHANGED << locations_txt, encounters_to_process_json,
                  patients_to_sync_json, patients_to_sync, run, exit_status,
                  location_ids, loc_i, patient_encounters,
                  encounters_to_process, k, listing >>

\* line 58 raises (the document cannot be written): nothing handles it.
ResetProgressFails ==
  /\ At("reset_progress")
  /\ UNCHANGED tracker_ids
  /\ UNCHANGED error_log
  /\ handled_encounters' = Some(<<>>)
  /\ Log("reset_progress", 0, "raise")
  /\ Exit(ExitFailure)
  /\ UNCHANGED << durable, run, pc, location_ids, loc_i, progress_tracker,
                  patient_encounters, encounters_to_process, k, listing >>

\* lines 64-66: connect() returns.
Connect ==
  /\ At("connect")
  /\ UNCHANGED tracker_ids
  /\ UNCHANGED error_log
  /\ Log("connect", 0, "ok")
  /\ pc' = "fetch"
  /\ UNCHANGED << durable, run, exit_status, location_ids, loc_i,
                  progress_tracker, handled_encounters, patient_encounters,
                  encounters_to_process, k, listing >>

\* line 65 raises, outside the try block: nothing handles it.
ConnectFails ==
  /\ At("connect")
  /\ UNCHANGED tracker_ids
  /\ UNCHANGED error_log
  /\ Log("connect", 0, "raise")
  /\ Exit(ExitFailure)
  /\ UNCHANGED << durable, run, pc, location_ids, loc_i, progress_tracker,
                  handled_encounters, patient_encounters,
                  encounters_to_process, k, listing >>

\* Mutant: the None check of line 69 is missing.
fetch_failed_unchecked(result) == FALSE

\* line 69: the fetch result that ends the run.
fetch_failed(result) == result.none

\* lines 68-72: the fetch returns a unit map or None; None exits.
Fetch ==
  /\ At("fetch")
  /\ UNCHANGED tracker_ids
  /\ \E result \in {None} \cup { Some(m) : m \in UnitMaps } :
       /\ patient_encounters' = result
       /\ Log("fetch", 0, IF result.none THEN "none" ELSE "map")
       /\ IF fetch_failed(result)
          THEN /\ LogError("fetch", Some(location_id))
               /\ Exit(ExitFailure)
               /\ UNCHANGED pc
          ELSE /\ pc' = "truncate_patients"
               /\ UNCHANGED << exit_status, error_log >>
  /\ UNCHANGED << durable, run, location_ids, loc_i, progress_tracker,
                  handled_encounters, encounters_to_process, k, listing >>

\* Mutant: the handler of line 94 logs and falls through to the hand-off.
FetchRaises_no_exit ==
  /\ At("fetch")
  /\ UNCHANGED tracker_ids
  /\ log_handler
  /\ Log("fetch", 0, "raise")
  /\ pc' = "loop"
  /\ UNCHANGED << durable, run, exit_status, location_ids, loc_i,
                  progress_tracker, handled_encounters, patient_encounters,
                  encounters_to_process, k, listing >>

\* line 68 raises: caught at line 94, logged, exit.
FetchRaises ==
  /\ At("fetch")
  /\ UNCHANGED tracker_ids
  /\ log_handler
  /\ Log("fetch", 0, "raise")
  /\ Exit(ExitFailure)
  /\ UNCHANGED << durable, run, pc, location_ids, loc_i, progress_tracker,
                  handled_encounters, patient_encounters,
                  encounters_to_process, k, listing >>

\* line 75: patients_to_sync.json is truncated.
TruncatePatientsToSync ==
  /\ At("truncate_patients")
  /\ UNCHANGED tracker_ids
  /\ UNCHANGED error_log
  /\ patients_to_sync_json' = "empty"
  /\ pc' = "truncate_encounters"
  /\ UNCHANGED << locations_txt, progress_json, encounters_to_process_json,
                  patients_to_sync, run, exit_status, location_ids, loc_i,
                  progress_tracker, handled_encounters, patient_encounters,
                  encounters_to_process, k, listing, calls >>

\* line 76: encounters_to_process.json is truncated.
TruncateEncounters ==
  /\ At("truncate_encounters")
  /\ UNCHANGED tracker_ids
  /\ UNCHANGED error_log
  /\ encounters_to_process_json' = EmptyFile
  /\ pc' = "dump"
  /\ UNCHANGED << locations_txt, progress_json, patients_to_sync_json,
                  patients_to_sync, run, exit_status, location_ids, loc_i,
                  progress_tracker, handled_encounters, patient_encounters,
                  encounters_to_process, k, listing, calls >>

\* Mutant: the map is written with sort_keys=True.
RECURSIVE SortedInsert(_, _)
SortedInsert(members, m) ==
  IF members = <<>> THEN <<m>>
  ELSE IF m.name < Head(members).name THEN <<m>> \o members
       ELSE <<Head(members)>> \o SortedInsert(Tail(members), m)

RECURSIVE SortKeys(_)
SortKeys(members) ==
  IF members = <<>> THEN <<>>
  ELSE SortedInsert(SortKeys(Tail(members)), Head(members))

DumpSnapshot_sorted ==
  /\ At("dump")
  /\ UNCHANGED tracker_ids
  /\ UNCHANGED error_log
  /\ encounters_to_process_json' =
       JsonFile(SortKeys(JsonDump(patient_encounters.val)))
  /\ pc' = "load"
  /\ UNCHANGED << locations_txt, progress_json, patients_to_sync_json,
                  patients_to_sync, run, exit_status, location_ids, loc_i,
                  progress_tracker, handled_encounters, patient_encounters,
                  encounters_to_process, k, listing, calls >>

\* lines 79-81: the fetched map is written to encounters_to_process.json.
DumpSnapshot ==
  /\ At("dump")
  /\ UNCHANGED tracker_ids
  /\ UNCHANGED error_log
  /\ encounters_to_process_json' = JsonFile(JsonDump(patient_encounters.val))
  /\ pc' = "load"
  /\ UNCHANGED << locations_txt, progress_json, patients_to_sync_json,
                  patients_to_sync, run, exit_status, location_ids, loc_i,
                  progress_tracker, handled_encounters, patient_encounters,
                  encounters_to_process, k, listing, calls >>

\* lines 79-80 raise while writing (disk full): the file is left truncated or
\* cut short, which is no JSON document; caught at line 94, exit.
DumpSnapshotFails ==
  /\ At("dump")
  /\ UNCHANGED tracker_ids
  /\ log_handler
  /\ encounters_to_process_json' = EmptyFile
  /\ Exit(ExitFailure)
  /\ UNCHANGED << locations_txt, progress_json, patients_to_sync_json,
                  patients_to_sync, run, pc, location_ids, loc_i,
                  progress_tracker, handled_encounters, patient_encounters,
                  encounters_to_process, k, listing, calls >>

\* lines 84-85: the map that drives the loop is read back from the file.
map_to_process(file) == JsonLoad(file.members)

LoadSnapshot ==
  /\ At("load")
  /\ UNCHANGED tracker_ids
  /\ UNCHANGED error_log
  /\ encounters_to_process_json.json
  /\ encounters_to_process' =
       map_to_process(encounters_to_process_json)
  /\ k' = 1
  /\ pc' = "loop"
  /\ UNCHANGED << durable, run, exit_status, location_ids, loc_i,
                  progress_tracker, handled_encounters, patient_encounters,
                  listing, calls >>

\* The staging file process_patient_and_encounters writes for a patient.
StagedFile(patient_id) ==
  [name |-> patient_id, kind |-> "file", origin |-> <<run, loc_i>>,
   inside |-> {}]

\* The directory after a file of that name is written.
WriteStaged(dir, file) == { e \in dir : e.name # file.name } \cup {file}

\* Mutant: a patient found in the list loaded at line 52 is skipped.
ProcessUnit_skip_recorded ==
  /\ At("loop")
  /\ UNCHANGED << tracker_ids, error_log >>
  /\ k <= Len(encounters_to_process)
  /\ LET patient_id == encounters_to_process[k][1]
     IN  IF \E n \in 1..Len(handled_encounters.val) :
               handled_encounters.val[n] = patient_id
         THEN /\ k' = k + 1
              /\ UNCHANGED << pc, calls, patients_to_sync >>
         ELSE /\ Log("process", patient_id, "ok")
              /\ patients_to_sync' =
                   WriteStaged(patients_to_sync, StagedFile(patient_id))
              /\ pc' = "update_progress"
              /\ UNCHANGED k
  /\ UNCHANGED << locations_txt, progress_json, encounters_to_process_json,
                  patients_to_sync_json, run, exit_status, location_ids,
                  loc_i, progress_tracker, handled_encounters,
                  patient_encounters, encounters_to_process, listing >>

\* lines 88-90: the next unit of the snapshot is handed to
\* process_patient_and_encounters, which stages the patient's file and returns.
ProcessUnit ==
  /\ At("loop")
  /\ UNCHANGED tracker_ids
  /\ UNCHANGED error_log
  /\ k <= Len(encounters_to_process)
  /\ LET patient_id == encounters_to_process[k][1]
     IN  /\ Log("process", patient_id, "ok")
         /\ patients_to_sync' =
              WriteStaged(patients_to_sync, StagedFile(patient_id))
  /\ pc' = "update_progress"
  /\ UNCHANGED << locations_txt, progress_json, encounters_to_process_json,
                  patients_to_sync_json, run, exit_status, location_ids,
                  loc_i, progress_tracker, handled_encounters,
                  patient_encounters, encounters_to_process, k, listing >>

\* Mutant: the patient is recorded although processing raised (the record
\* sits in a finally clause).
ProcessUnitRaises_recorded ==
  /\ At("loop")
  /\ UNCHANGED tracker_ids
  /\ UNCHANGED error_log
  /\ k <= Len(encounters_to_process)
  /\ Log("process", encounters_to_process[k][1], "raise")
  /\ pc' = "update_progress"
  /\ UNCHANGED << durable, run, exit_status, location_ids, loc_i,
                  progress_tracker, handled_encounters, patient_encounters,
                  encounters_to_process, k, listing >>

\* Mutant: the failure is logged per unit and the loop goes on with the next
\* patient.
ProcessUnitRaises_continue ==
  /\ At("loop")
  /\ UNCHANGED tracker_ids
  /\ log_handler
  /\ k <= Len(encounters_to_process)
  /\ Log("process", encounters_to_process[k][1], "raise")
  /\ k' = k + 1
  /\ UNCHANGED << durable, run, pc, exit_status, location_ids, loc_i,
                  progress_tracker, handled_encounters, patient_encounters,
                  encounters_to_process, listing >>

\* line 90 raises, before or after the file was staged: caught at line 94,
\* logged, exit.
ProcessUnitRaises ==
  /\ At("loop")
  /\ UNCHANGED tracker_ids
  /\ log_handler
  /\ k <= Len(encounters_to_process)
  /\ LET patient_id == encounters_to_process[k][1]
     IN  /\ Log("process", patient_id, "raise")
         /\ patients_to_sync' \in
              { patients_to_sync,
                WriteStaged(patients_to_sync, StagedFile(patient_id)) }
  /\ Exit(ExitFailure)
  /\ UNCHANGED << locations_txt, progress_json, encounters_to_process_json,
                  patients_to_sync_json, run, pc, location_ids, loc_i,
                  progress_tracker, handled_encounters, patient_encounters,
                  encounters_to_process, k, listing >>

\* Mutant: the patient is recorded twice (a second update_progress call for
\* the same unit).
UpdateProgress_twice ==
  /\ At("update_progress")
  /\ UNCHANGED << tracker_ids, error_log >>
  /\ LET patient_id == encounters_to_process[k][1]
     IN  /\ progress_tracker' =
               update_progress(
                 update_progress(progress_tracker, location_id, patient_id),
                 location_id, patient_id)
         /\ Log("update_progress", patient_id, "ok")
  /\ progress_json' = progress_tracker'
  /\ k' = k + 1
  /\ pc' = "loop"
  /\ UNCHANGED << locations_txt, encounters_to_process_json,
                  patients_to_sync_json, patients_to_sync, run, exit_status,
                  location_ids, loc_i, handled_encounters, patient_encounters,
                  encounters_to_process, listing >>

\* Mutant: the record is made after the loop, for the last patient only.
UpdateProgress_after_loop ==
  /\ At("update_progress")
  /\ UNCHANGED << tracker_ids, error_log >>
  /\ IF k = Len(encounters_to_process)
     THEN /\ progress_tracker' =
               update_progress(progress_tracker, location_id,
                               encounters_to_process[k][1])
          /\ Log("update_progress", encounters_to_process[k][1], "ok")
     ELSE UNCHANGED << progress_tracker, calls >>
  /\ progress_json' = progress_tracker'
  /\ k' = k + 1
  /\ pc' = "loop"
  /\ UNCHANGED << locations_txt, encounters_to_process_json,
                  patients_to_sync_json, patients_to_sync, run, exit_status,
                  location_ids, loc_i, handled_encounters, patient_encounters,
                  encounters_to_process, listing >>

\* line 93: the processed patient is recorded and the document persisted.
UpdateProgress ==
  /\ At("update_progress")
  /\ UNCHANGED tracker_ids
  /\ UNCHANGED error_log
  /\ LET patient_id == encounters_to_process[k][1]
     IN  /\ progress_tracker' =
               update_progress(progress_tracker, location_id, patient_id)
         /\ Log("update_progress", patient_id, "ok")
  /\ progress_json' = progress_tracker'
  /\ k' = k + 1
  /\ pc' = "loop"
  /\ UNCHANGED << locations_txt, encounters_to_process_json,
                  patients_to_sync_json, patients_to_sync, run, exit_status,
                  location_ids, loc_i, handled_encounters, patient_encounters,
                  encounters_to_process, listing >>

\* line 93 raises (the document cannot be written): caught at line 94, exit.
UpdateProgressFails ==
  /\ At("update_progress")
  /\ UNCHANGED tracker_ids
  /\ log_handler
  /\ Log("update_progress", encounters_to_process[k][1], "raise")
  /\ Exit(ExitFailure)
  /\ UNCHANGED << durable, run, pc, location_ids, loc_i, progress_tracker,
                  handled_encounters, patient_encounters,
                  encounters_to_process, k, listing >>

\* Mutant: nothing is handed off when the staging directory holds no file.
HandOff_if_staged ==
  /\ At("loop")
  /\ UNCHANGED tracker_ids
  /\ UNCHANGED error_log
  /\ k > Len(encounters_to_process)
  /\ IF \E e \in patients_to_sync : e.kind = "file"
     THEN Log("process_patient_files", 0, "ok")
     ELSE UNCHANGED calls
  /\ loc_i' = loc_i + 1
  /\ pc' = "for_location"
  /\ UNCHANGED << durable, run, exit_status, location_ids, progress_tracker,
                  handled_encounters, patient_encounters,
                  encounters_to_process, k, listing >>

\* lines 98-100: the loop is over; process_patient_files is called and
\* returns, and so does process_location.
HandOff ==
  /\ At("loop")
  /\ UNCHANGED tracker_ids
  /\ UNCHANGED error_log
  /\ k > Len(encounters_to_process)
  /\ Log("process_patient_files", 0, "ok")
  /\ loc_i' = loc_i + 1
  /\ pc' = "for_location"
  /\ UNCHANGED << durable, run, exit_status, location_ids, progress_tracker,
                  handled_encounters, patient_encounters,
                  encounters_to_process, k, listing >>

\* line 100 raises: nothing handles it.
HandOffFails ==
  /\ At("loop")
  /\ UNCHANGED tracker_ids
  /\ UNCHANGED error_log
  /\ k > Len(encounters_to_process)
  /\ Log("process_patient_files", 0, "raise")
  /\ Exit(ExitFailure)
  /\ UNCHANGED << durable, run, pc, location_ids, loc_i, progress_tracker,
                  handled_encounters, patient_encounters,
                  encounters_to_process, k, listing >>

\* ------------------------------------------------------------- environment
\* The process is killed between two steps.
Crash ==
  /\ exit_status = Running
  /\ UNCHANGED tracker_ids
  /\ UNCHANGED error_log
  /\ Exit(Killed)
  /\ UNCHANGED << durable, run, pc, location_ids, loc_i, progress_tracker,
                  handled_encounters, patient_encounters,
                  encounters_to_process, k, listing, calls >>

\* The program is started again: only the files are what they were.
Restart ==
  /\ exit_status # Running
  /\ tracker_ids' = NoTrackers
  /\ error_log' = <<>>
  /\ run < MaxRuns
  /\ run' = run + 1
  /\ pc' = "main"
  /\ exit_status' = Running
  /\ location_ids' = <<>>
  /\ loc_i' = 1
  /\ progress_tracker' = EmptyDocument
  /\ handled_encounters' = None
  /\ patient_encounters' = None
  /\ encounters_to_process' = <<>>
  /\ k' = 1
  /\ listing' = {}
  /\ calls' = <<>>
  /\ UNCHANGED durable

Next ==
  \/ MainReadRoster \/ MainRosterExit \/ MainNextLocation \/ MainReturn
  \/ ClearListdir \/ ClearUnlink \/ ClearUnlinkFails \/ ClearSkip \/ ClearReturn
  \/ GetProgress \/ ResetProgress \/ ResetProgressFails
  \/ Connect \/ ConnectFails \/ Fetch \/ FetchRaises
  \/ TruncatePatientsToSync \/ TruncateEncounters
  \/ DumpSnapshot \/ DumpSnapshotFails \/ LoadSnapshot
  \/ ProcessUnit \/ ProcessUnitRaises \/ UpdateProgress \/ UpdateProgressFails
  \/ HandOff \/ HandOffFails
  \/ Crash \/ Restart

Spec == Init /\ [][Next]_vars

\* ------------------------------------------------------------- the roster reader alone
\* The characters of a roster file, and every roster file up to MaxRosterLen
\* characters, with the missing file.
RosterChars == { " ", "\n", "A", "B" }

RosterTexts == UNION { [1..m -> RosterChars] : m \in 0..MaxRosterLen }

AnyRosterFile ==
  { [exists |-> FALSE, text |-> <<>>] }
    \cup { [exists |-> TRUE, text |-> t] : t \in RosterTexts }

\* main starts on any roster file; the other files are those of a first run.
InitRoster ==
  /\ locations_txt \in AnyRosterFile
  /\ progress_json = EmptyDocument
  /\ encounters_to_process_json = EmptyFile
  /\ patients_to_sync_json = "data"
  /\ patients_to_sync = {OldFile, SubDir}
  /\ run = 1
  /\ pc = "main"
  /\ exit_status = Running
  /\ location_ids = <<>>
  /\ loc_i = 1
  /\ progress_tracker = EmptyDocument
  /\ handled_encounters = None
  /\ patient_encounters = None
  /\ encounters_to_process = <<>>
  /\ k = 1
  /\ listing = {}
  /\ calls = <<>>
  /\ error_log = <<>>
  /\ tracker_ids = NoTrackers

\* main up to the return of read_location_ids (lines 104-109).
NextRoster == MainReadRoster \/ MainRosterExit

SpecRoster == InitRoster /\ [][NextRoster]_vars

\* ------------------------------------------------------------- properties
\* The last collaborator call of this process.
Last == calls[Len(calls)]

\* A call that ended in a fatal condition.
Fatal(e) == e.ret = "raise" \/ (e.op = "fetch" /\ e.ret = "none")

\* Positions in the history of the calls `op` made for roster entry i.
EventsOf(i, op) == { n \in 1..Len(calls) : calls[n].i = i /\ calls[n].op = op }

\* The step appends a call `op` to the history.
Calls(op) ==
  /\ Len(calls') = Len(calls) + 1
  /\ calls'[Len(calls')].op = op

Contains(list, x) == \E n \in 1..Len(list) : list[n] = x

\* C1: progress is monotonic across runs, aborts, crashes and re-runs: a
\* PatientId in the progress document's list for a location is still there
\* after every step, and reset_progress is called only for a location that
\* is absent from the document (get_progress returned None).
C1_ProgressMonotonic ==
  [][ /\ \A L \in DOMAIN progress_json :
           /\ L \in DOMAIN progress_json'
           /\ \A n \in 1..Len(progress_json[L]) :
                Contains(progress_json'[L], progress_json[L][n])
      /\ Calls("reset_progress") =>
           /\ location_id \notin DOMAIN progress_json
           /\ handled_encounters.none ]_vars

\* A re-run has taken the "handled before" branch for a location whose list
\* is not empty.
C1_Witness ==
  /\ run = 2
  /\ pc = "connect"
  /\ ~handled_encounters.none
  /\ location_id \in DOMAIN progress_json
  /\ Len(progress_json[location_id]) > 0

\* The PatientIds of the calls `op` made for roster entry i, in call order.
RECURSIVE PidsFrom(_, _, _)
PidsFrom(n, i, op) ==
  IF n > Len(calls) THEN <<>>
  ELSE IF calls[n].i = i /\ calls[n].op = op
       THEN <<calls[n].pid>> \o PidsFrom(n + 1, i, op)
       ELSE PidsFrom(n + 1, i, op)

PidsOf(i, op) == PidsFrom(1, i, op)

\* C2: in the processing stage units are handled one at a time in the
\* snapshot's order, and update_progress(L, P) is called only right after
\* process_patient_and_encounters(P, ..., L) returned without raising and
\* before the next patient is processed; so every PatientId recorded in a run
\* was successfully processed for L earlier in that run.
C2_RecordAfterProcess ==
  /\ \A n \in 1..Len(calls) :
       /\ calls[n].op = "update_progress" =>
            /\ n > 1
            /\ calls[n - 1].op = "process"
            /\ calls[n - 1].ret = "ok"
            /\ calls[n - 1].pid = calls[n].pid
            /\ calls[n - 1].i = calls[n].i
            /\ calls[n - 1].loc = calls[n].loc
       /\ (calls[n].op = "process" /\ calls[n].ret = "ok" /\ n < Len(calls)) =>
            /\ calls[n + 1].op = "update_progress"
            /\ calls[n + 1].pid = calls[n].pid
  /\ (pc \in {"loop", "update_progress"}) =>
       /\ PidsOf(loc_i, "process") =
            SubSeq(Keys(encounters_to_process), 1,
                   Len(PidsOf(loc_i, "process")))
       /\ Len(PidsOf(loc_i, "process")) \in {k - 1, k}

\* Both units of a two-unit snapshot have been processed and recorded.
C2_Witness ==
  /\ pc = "loop"
  /\ k = 3
  /\ Len(calls) > 0
  /\ Last.op = "update_progress"
  /\ Last.ret = "ok"

\* C3: the snapshot file is overwritten with the fetched map before the
\* first unit of the run is processed and the loop is driven by the map read
\* back from it: whenever a unit is processed or recorded, and at any point
\* the process then stops at, encounters_to_process.json holds the map
\* fetched for this location in this run.
C3_SnapshotIsFetchedMap ==
  (pc \in {"loop", "update_progress"}) =>
    /\ ~patient_encounters.none
    /\ encounters_to_process_json = JsonFile(JsonDump(patient_encounters.val))
    /\ encounters_to_process = JsonLoad(encounters_to_process_json.members)

\* The process was killed while recording a unit of the second location of a
\* re-run: the file held other maps before.
C3_Witness ==
  /\ run = 2
  /\ loc_i = 2
  /\ pc = "update_progress"
  /\ exit_status = Killed
  /\ Len(encounters_to_process) = 2

\* C4: when the fetch returns None or raises, the snapshot file is left as
\* it was, no unit is processed or recorded and nothing is handed off for
\* the location, and the run is aborted.
C4_FetchFailureAborts ==
  /\ [][ (Calls("fetch") /\ Fatal(calls'[Len(calls')])) =>
           /\ encounters_to_process_json' = encounters_to_process_json
           /\ exit_status' = ExitFailure ]_vars
  /\ [] (\A n \in 1..Len(calls) :
           (calls[n].op = "fetch" /\ Fatal(calls[n])) =>
              /\ n = Len(calls)
              /\ exit_status # Running
              /\ EventsOf(calls[n].i, "process") = {}
              /\ EventsOf(calls[n].i, "update_progress") = {}
              /\ EventsOf(calls[n].i, "process_patient_files") = {})

\* The fetch for the second location returned None while the file held the
\* first location's snapshot.
C4_Witness ==
  /\ Len(calls) > 0
  /\ Last.op = "fetch"
  /\ Last.ret = "none"
  /\ loc_i = 2
  /\ encounters_to_process_json.json
  /\ Len(encounters_to_process_json.members) > 0

\* C5: when processing raises on the k-th patient of the snapshot, the
\* patients after it are never attempted, the failing patient is not
\* recorded, the patients recorded before remain (the list is the one found
\* at the start of the run, the empty list for a first-time location,
\* followed by the first k-1 snapshot patients), and nothing is handed off.
C5_ProcessFailure ==
  (Len(calls) > 0 /\ Last.op = "process" /\ Last.ret = "raise") =>
    /\ exit_status # Running
    /\ Last.i = loc_i
    /\ Last.pid = Keys(encounters_to_process)[k]
    /\ PidsOf(loc_i, "process") = SubSeq(Keys(encounters_to_process), 1, k)
    /\ PidsOf(loc_i, "update_progress") =
         SubSeq(Keys(encounters_to_process), 1, k - 1)
    /\ progress_json[location_id] =
         handled_encounters.val \o SubSeq(Keys(encounters_to_process), 1, k - 1)
    /\ (EventsOf(loc_i, "get_progress") # {}
        /\ \A n \in EventsOf(loc_i, "get_progress") : calls[n].ret = "none") =>
         progress_json[location_id] =
           SubSeq(Keys(encounters_to_process), 1, k - 1)
    /\ EventsOf(loc_i, "process_patient_files") = {}

\* Processing raised on the second patient of a first-time location.
C5_Witness ==
  /\ Len(calls) > 0
  /\ Last.op = "process"
  /\ Last.ret = "raise"
  /\ k = 2
  /\ Len(encounters_to_process) = 2
  /\ \E n \in EventsOf(loc_i, "get_progress") : calls[n].ret = "none"
  /\ Len(progress_json[location_id]) = 1

\* C6: a location run that processes all units of its snapshot hands off
\* exactly once, after the record of the last snapshot unit (right after the
\* fetch when the snapshot is empty) and before any step of the next
\* location, whatever the staging directory holds; a run that aborted hands
\* off nothing.
C6_HandOffOncePerLocation ==
  /\ \A i \in 1..Len(location_ids) :
       /\ (i < loc_i) =>
            /\ Cardinality(EventsOf(i, "process_patient_files")) = 1
            /\ \A n \in EventsOf(i, "process_patient_files") : calls[n].ret = "ok"
       /\ (i = loc_i) =>
            \A n \in EventsOf(i, "process_patient_files") :
              calls[n].ret = "raise" /\ n = Len(calls)
       /\ (i > loc_i) => EventsOf(i, "process_patient_files") = {}
  /\ \A n \in 1..Len(calls) :
       (calls[n].op = "process_patient_files") =>
         /\ n > 1
         /\ calls[n - 1].i = calls[n].i
         /\ \/ calls[n - 1].op = "update_progress" /\ calls[n - 1].ret = "ok"
            \/ /\ calls[n - 1].op = "fetch" /\ calls[n - 1].ret = "map"
               /\ PidsOf(calls[n].i, "process") = <<>>
         /\ PidsOf(calls[n].i, "update_progress") = PidsOf(calls[n].i, "process")
         /\ (n < Len(calls)) =>
              /\ calls[n + 1].op = "process_location"
              /\ calls[n + 1].i = calls[n].i + 1
  /\ (Len(calls) > 0 /\ Last.op = "process_patient_files") =>
       PidsOf(Last.i, "update_progress") = Keys(encounters_to_process)
  /\ (exit_status = Running /\ pc = "loop" /\ k > Len(encounters_to_process)) =>
       (ENABLED HandOff)

\* A location whose snapshot holds no patient was handed off with an empty
\* staging directory.
C6_Witness ==
  \E n \in 2..Len(calls) :
    /\ calls[n].op = "process_patient_files"
    /\ calls[n].ret = "ok"
    /\ calls[n - 1].op = "fetch"
    /\ \A e \in patients_to_sync : e.kind # "file"

\* Between the return of the clear and the hand-off of a location run.
InLocationRun ==
  pc \in { "get_progress", "reset_progress", "connect", "fetch",
           "truncate_patients", "truncate_encounters", "dump", "load",
           "loop", "update_progress" }

\* C7: staging isolation: once the clear has returned, and up to the
\* hand-off, every regular file directly in patients_to_sync/ was staged by
\* this location run; none is left from an earlier location or program run.
C7_StagingIsolation ==
  InLocationRun =>
    \A e \in patients_to_sync :
      (e.kind = "file") => (e.origin = <<run, loc_i>>)

\* A re-run is about to hand off a location: the clear removed a file of an
\* earlier run and the directory holds this run's file.
C7_Witness ==
  /\ run = 2
  /\ pc = "loop"
  /\ exit_status = Running
  /\ k > Len(encounters_to_process)
  /\ \E n \in EventsOf(loc_i, "unlink") : calls[n].ret = "ok"
  /\ \E e \in patients_to_sync : e.kind = "file"

\* C8: a fatal condition ends the whole batch: a failed unlink, connect,
\* fetch (None or exception), unit processing, reset or record, or hand-off
\* is the last collaborator call of the process, for this and every later
\* location.
C8_FatalEndsBatch ==
  /\ \A n \in 1..Len(calls) :
       Fatal(calls[n]) =>
         /\ n = Len(calls)
         /\ exit_status = ExitFailure
         /\ pc # "done"
  /\ (exit_status # Running) => ~(ENABLED (Next /\ calls' # calls /\ run' = run))

\* Recording a unit of the first of two locations failed.
C8_Witness ==
  /\ Len(calls) > 0
  /\ Last.op = "update_progress"
  /\ Last.ret = "raise"
  /\ loc_i = 1
  /\ Len(location_ids) = 2
  /\ exit_status = ExitFailure

\* C9: the batch driver calls the orchestrator once per roster entry, in
\* roster order, one after the other: the run of entry i+1 starts right
\* after the hand-off of entry i returned, and an id listed twice is run
\* twice.
C9_OncePerEntryInOrder ==
  /\ \A i \in 1..Len(location_ids) :
       /\ Cardinality(EventsOf(i, "process_location")) <= 1
       /\ (exit_status = ExitSuccess) =>
            Cardinality(EventsOf(i, "process_location")) = 1
  /\ \A n \in 1..Len(calls) :
       /\ calls[n].i \in 1..Len(location_ids)
       /\ calls[n].loc = location_ids[calls[n].i]
       /\ \E m \in 1..n :
            calls[m].op = "process_location" /\ calls[m].i = calls[n].i
       /\ (calls[n].op = "process_location") =>
            IF n = 1 THEN calls[n].i = 1
            ELSE /\ calls[n - 1].op = "process_patient_files"
                 /\ calls[n - 1].ret = "ok"
                 /\ calls[n - 1].i = calls[n].i - 1

\* A roster that lists one location twice was run to the end.
C9_Witness ==
  /\ exit_status = ExitSuccess
  /\ Len(location_ids) = 2
  /\ location_ids[1] = location_ids[2]
  /\ Cardinality(EventsOf(2, "process_location")) = 1

\* Every roster entry's run reached its hand-off and the hand-off returned.
AllHandedOff ==
  /\ location_ids # <<>>
  /\ \A i \in 1..Len(location_ids) :
       \E n \in EventsOf(i, "process_patient_files") : calls[n].ret = "ok"

\* C10: a process that ends by itself ends with status 0 exactly when every
\* roster entry's run reached its hand-off and the hand-off returned; a
\* missing or empty roster and every failed collaborator call end it with a
\* non-zero status.
C10_ExitStatus ==
  /\ (exit_status = ExitSuccess) => AllHandedOff
  /\ (exit_status \in {ExitSuccess, ExitFailure} /\ AllHandedOff) =>
       exit_status = ExitSuccess
  /\ (Len(calls) > 0 /\ Fatal(Last)) => exit_status = ExitFailure
  /\ (read_location_ids(locations_txt).exit /\ exit_status # Running) =>
       exit_status \in {ExitFailure, Killed}
  /\ (pc = "dump" /\ encounters_to_process_json = EmptyFile
      /\ exit_status \notin {Running, Killed}) => exit_status = ExitFailure

\* A batch of two locations ended with status 0.
C10_Witness ==
  /\ exit_status = ExitSuccess
  /\ pc = "done"
  /\ Len(location_ids) = 2
  /\ AllHandedOff

\* The stage a failed collaborator call belongs to.
StageOf(op) ==
  CASE op = "unlink" -> "delete"
    [] op = "connect" -> "connect"
    [] op = "fetch" -> "fetch"
    [] op = "process" -> "processing"
    [] op = "update_progress" -> "record"
    [] OTHER -> op

\* C11: every fatal condition is logged before the process ends, with a
\* record that names the location id and the stage it occurred in: a failed
\* connect, fetch, unit processing (stage processing, not fetch), record and
\* staging clear.
C11_FatalLogged ==
  (/\ Len(calls) > 0
   /\ Fatal(Last)
   /\ Last.op \in {"unlink", "connect", "fetch", "process", "update_progress"}) =>
    /\ Len(error_log) > 0
    /\ error_log[Len(error_log)].location = Some(Last.loc)
    /\ error_log[Len(error_log)].stage = StageOf(Last.op)

\* C12: the clear removes the regular files directly inside the staging
\* directory and nothing else: no step removes or changes a subdirectory or
\* what it holds, each step of the clear removes one regular file at most,
\* the files it has visited are gone, when it returns no regular file is
\* left, and when an unlink fails the entries not yet visited are all still
\* there.
C12_ClearFilesOnly ==
  /\ [][ /\ \A e \in patients_to_sync :
              (e.kind = "dir") => (e \in patients_to_sync')
         /\ (pc = "clear" /\ patients_to_sync' # patients_to_sync) =>
              \E e \in patients_to_sync :
                /\ e.kind = "file"
                /\ patients_to_sync' = patients_to_sync \ {e} ]_vars
  /\ [] ((pc = "clear") =>
           /\ listing \subseteq patients_to_sync
           /\ \A e \in patients_to_sync : (e.kind = "file") => (e \in listing))
  /\ [] ((pc = "get_progress") =>
           \A e \in patients_to_sync : e.kind # "file")
  /\ [] ((Len(calls) > 0 /\ Last.op = "unlink" /\ Last.ret = "raise") =>
           /\ exit_status = ExitFailure
           /\ pc = "clear"
           /\ \E e \in listing : e.kind = "file" /\ e.name = Last.pid)

\* The clear of a re-run has removed two regular files and returned; the
\* subdirectory and the file inside it are still there.
C12_Witness ==
  /\ pc = "get_progress"
  /\ Cardinality({ n \in EventsOf(loc_i, "unlink") : calls[n].ret = "ok" }) = 2
  /\ SubDir \in patients_to_sync
  /\ \A e \in patients_to_sync : e.kind # "file"

\* What the roster file asks for, stated on the text itself: a line starts at
\* the first character and after every newline and runs up to the next
\* newline; its id is the stretch from its first to its last character that
\* is no whitespace; lines without such a character give no id.
LineStarts(text) ==
  { a \in 1..Len(text) : a = 1 \/ text[a - 1] = "\n" }

LineEnd(text, a) ==
  IF \E b \in a..Len(text) : text[b] = "\n"
  THEN CHOOSE b \in a..Len(text) :
         text[b] = "\n" /\ \A j \in a..(b - 1) : text[j] # "\n"
  ELSE Len(text)

Inked(text, a) ==
  { n \in a..LineEnd(text, a) : text[n] \notin Whitespace }

IdOfLine(text, a) ==
  LET first == CHOOSE n \in Inked(text, a) : \A j \in Inked(text, a) : n <= j
      last  == CHOOSE n \in Inked(text, a) : \A j \in Inked(text, a) : n >= j
  IN  [n \in 1..(last - first + 1) |-> text[first + n - 1]]

ExpectedIds(text) ==
  LET lines == { a \in LineStarts(text) : Inked(text, a) # {} }
      nth(j) == CHOOSE a \in lines : Cardinality({ x \in lines : x < a }) = j - 1
  IN  [j \in 1..Cardinality(lines) |-> IdOfLine(text, nth(j))]

\* C13: read_location_ids returns the lines of the roster file, in file
\* order, with surrounding whitespace trimmed and blank lines removed; a
\* missing file or a file without any id ends the process before any
\* location is touched: no collaborator was called, no file was changed and
\* no step of the program can follow.
C13_RosterParsed ==
  /\ (pc # "main") =>
       /\ locations_txt.exists
       /\ location_ids = ExpectedIds(locations_txt.text)
       /\ location_ids # <<>>
  /\ (pc = "main" /\ exit_status = ExitFailure) =>
       /\ ~locations_txt.exists \/ ExpectedIds(locations_txt.text) = <<>>
       /\ calls = <<>>
       /\ progress_json = EmptyDocument
       /\ encounters_to_process_json = EmptyFile
       /\ patients_to_sync_json = "data"
       /\ patients_to_sync = {OldFile, SubDir}
       /\ ~(ENABLED (Next /\ run' = run))
  /\ (pc = "main" /\ exit_status = Running) =>
       IF locations_txt.exists /\ ExpectedIds(locations_txt.text) # <<>>
       THEN (ENABLED MainReadRoster) /\ ~(ENABLED MainRosterExit)
       ELSE (ENABLED MainRosterExit) /\ ~(ENABLED MainReadRoster)

\* A roster with padding and a blank line was read as two ids.
C13_Witness ==
  /\ pc = "for_location"
  /\ locations_txt.text = <<" ", "A", "\n", "\n", "B">>
  /\ location_ids = << <<"A">>, <<"B">> >>

\* The run of roster entry i found its location absent from the document.
FirstTime(i) ==
  /\ EventsOf(i, "get_progress") # {}
  /\ \A n \in EventsOf(i, "get_progress") : calls[n].ret = "none"

NoDuplicates(list) ==
  \A a, b \in 1..Len(list) : (a # b) => (list[a] # list[b])

\* C14: after a complete, failure-free run for a first-time location the
\* progress list of the location is the sequence of the PatientIds of the
\* fetched map in its order, each once, and encounters_to_process.json holds
\* the fetched map.
C14_FirstTimeRunResult ==
  (/\ Len(calls) > 0
   /\ Last.op = "process_patient_files"
   /\ Last.ret = "ok"
   /\ FirstTime(Last.i)) =>
    /\ ~patient_encounters.none
    /\ Last.loc \in DOMAIN progress_json
    /\ progress_json[Last.loc] = Keys(patient_encounters.val)
    /\ NoDuplicates(progress_json[Last.loc])
    /\ encounters_to_process_json = JsonFile(JsonDump(patient_encounters.val))

\* A first-time location with two units was run to its hand-off.
C14_Witness ==
  /\ Len(calls) > 0
  /\ Last.op = "process_patient_files"
  /\ Last.ret = "ok"
  /\ FirstTime(Last.i)
  /\ Len(patient_encounters.val) = 2
  /\ Len(progress_json[Last.loc]) = 2

\* C15: the list loaded at the start of a run is not used to skip work: the
\* units processed in a run are the units of the snapshot, whatever the
\* progress document held; a patient already in the list is processed again.
C15_ResumeMarkerUnused ==
  /\ (pc \in {"loop", "update_progress"} /\ ~(Len(calls) > 0 /\ Fatal(Last))) =>
       PidsOf(loc_i, "process") =
         SubSeq(Keys(patient_encounters.val), 1,
                IF pc = "loop" THEN k - 1 ELSE k)
  /\ (Len(calls) > 0 /\ Last.op = "process_patient_files") =>
       PidsOf(Last.i, "process") = Keys(patient_encounters.val)

\* In a re-run a patient was processed although the list loaded for the
\* location already held it.
C15_Witness ==
  /\ run = 2
  /\ pc = "update_progress"
  /\ ~handled_encounters.none
  /\ Last.op = "process"
  /\ Last.ret = "ok"
  /\ Contains(handled_encounters.val, Last.pid)

\* How often a PatientId occurs in a list.
Occurrences(list, x) == Cardinality({ n \in 1..Len(list) : list[n] = x })

\* C16 as claimed: no progress list holds a PatientId twice, in any state.
C16_NoDuplicates ==
  \A L \in DOMAIN progress_json : NoDuplicates(progress_json[L])

\* C16 as amended: a progress list holds a PatientId at most once per
\* orchestrator run of its location, that is at most as often as the
\* location is listed in the roster times the number of program runs.
C16_AtMostOncePerRun ==
  LET roster == read_location_ids(locations_txt).ids
  IN  \A L \in DOMAIN progress_json :
        \A P \in PatientIds :
          Occurrences(progress_json[L], P) <=
            run * Occurrences(roster, L)

\* One program run over a roster that lists a location twice has recorded
\* a patient twice.
C16_Witness ==
  /\ run = 1
  /\ \E L \in DOMAIN progress_json :
       \E P \in PatientIds :
         /\ Occurrences(progress_json[L], P) = 2
         /\ Occurrences(location_ids, L) = 2

\* C17: every get_progress, reset_progress and update_progress call of a
\* batch is made on the ProgressTracker instance main passed to
\* process_location, and main passes the same instance for every location.
C17_SharedInstance ==
  \A n \in 1..Len(calls) :
    \A m \in 1..Len(calls) :
      /\ (calls[n].op = "process_location" /\ calls[m].op \in StoreOps) =>
           calls[m].on = calls[n].on
      /\ (calls[n].op = "process_location" /\
          calls[m].op = "process_location") =>
           calls[m].on = calls[n].on

\* C18: a step that changes the progress document belongs to the run of one
\* location and leaves the entry of every other location as it was: no other
\* location is added, removed or given a different list.
C18_OnlyOwnEntry ==
  [][ (progress_json' # progress_json) =>
        /\ InLocationRun
        /\ DOMAIN progress_json' \subseteq DOMAIN progress_json \cup {location_id}
        /\ \A L2 \in DOMAIN progress_json \ {location_id} :
             /\ L2 \in DOMAIN progress_json'
             /\ progress_json'[L2] = progress_json[L2] ]_vars

\* A patient of one location has been recorded while another location holds
\* a non-empty list in the document.
C18_Witness ==
  /\ Len(calls) > 0
  /\ Last.op = "update_progress"
  /\ Last.ret = "ok"
  /\ \E L2 \in DOMAIN progress_json \ {location_id} :
       progress_json[L2] # <<>>

\* The run of the current roster entry has ended in a failed connect or a
\* failed fetch (None returned, or an exception).
ConnectOrFetchFailed ==
  /\ Len(calls) > 0
  /\ Last.i = loc_i
  /\ Last.op \in {"connect", "fetch"}
  /\ Last.ret \in {"raise", "none"}

\* C19: when connect or fetch has failed for a location that this run found
\* absent from the progress document, the document holds the location with
\* an empty list, so a later get_progress for it returns a list and the
\* location is not new any more.
C19_EmptyEntryKept ==
  (ConnectOrFetchFailed /\ FirstTime(loc_i)) =>
    /\ exit_status = ExitFailure
    /\ location_id \in DOMAIN progress_json
    /\ progress_json[location_id] = <<>>
    /\ get_progress(progress_json, location_id) = Some(<<>>)
    /\ ~is_new_location(get_progress(progress_json, location_id))

\* The fetch has failed for a first-time location whose entry was reset.
C19_Witness ==
  /\ ConnectOrFetchFailed
  /\ Last.op = "fetch"
  /\ FirstTime(loc_i)
  /\ EventsOf(loc_i, "reset_progress") # {}
  /\ PidsOf(loc_i, "process") = <<>>

====
